---- MODULE Spec2Model ----
(***************************************************************************)
(* State-machine model of books.py: the Book record, the BooksQueue        *)
(* lifecycle (add_book, complete_book) and the reading log (_set_log,      *)
(* set_today_log, set_yesterday_log, avg, total).                          *)
(*                                                                         *)
(* Dates are day numbers: day n is the n-th of January 2024, None is 0.    *)
(* A Python exception leaving an operation is recorded in err; "none"      *)
(* means the call returned normally.                                       *)
(***************************************************************************)
EXTENDS Integers, Sequences, FiniteSets, TLC

\* ---------------------------------------------------------------- bounds
MaxDay == 3          \* the clock runs over days 2..MaxDay
MaxBooks == 3        \* at most this many materials exist in the system
MaxInitQueue == 2    \* longest queue a loaded snapshot holds
MaxLog == 2          \* at most this many log entries are recorded

\* ------------------------------------------------------------- constants
None == 0            \* Python None for an absent date
PAGES_PER_DAY == 50

SizeChoices == {150}                    \* pages of a book given to add_book
PageChoices == {0 - 1, 0, 25, 50, 100}  \* pages given to the log setters
TitleChoices == {"T"}
AuthorChoices == {"A"}

\* ------------------------------------------------------ dates and strings
\* date.strftime(DATE_FORMAT) for the days of the model's calendar
strftime(d) == (IF d < 10 THEN "0" ELSE "") \o ToString(d) \o ".01.2024"

Days == 1..MaxDay

\* the strings handed to the code: one in DATE_FORMAT and one that is not
StrChoices == {"01.01.2024", "2024-01-02"}

\* strptime accepts a day with or without the leading zero
Unpadded(d) == ToString(d) \o ".01.2024"
Parses(s) == \E d \in Days : s = strftime(d) \/ s = Unpadded(d)
strptime(s) == CHOOSE d \in Days : s = strftime(d) \/ s = Unpadded(d)

\* a date argument is a datetime.date or a str
DateObj(d) == [kind |-> "date", day |-> d, text |-> ""]
StrObj(s) == [kind |-> "str", day |-> None, text |-> s]

\* the try/except around strptime in the setters and in _set_log:
\* a date object raises TypeError and is kept, a str is parsed
WrongFormat(a) == a.kind = "str" /\ ~Parses(a.text)
ToDate(a) == IF a.kind = "str" THEN strptime(a.text) ELSE a.day

\* ------------------------------------------------------------------ Book
Book(id, title, author, pages, start_date, end_date) ==
    [id |-> id, title |-> title, author |-> author, pages |-> pages,
     start_date |-> start_date, end_date |-> end_date]

\* the setters take None, a date or a str in DATE_FORMAT (the callers of the
\* model hand them no malformed str, for which they raise ValueError)
set_start_date(book, date) == [book EXCEPT !.start_date = ToDate(date)]

set_end_date_lost(book, date) == book

set_end_date(book, date) == [book EXCEPT !.end_date = ToDate(date)]

\* file is the content of log.json, run is the position and the arguments
\* of a command-line run of main, succeeded (kept by SpecDaily) holds the
\* dated log setters that returned normally and the day each was called on
VARIABLES queue, processed, log, today, op, err, arg, added, file, run,
          succeeded

vars == <<queue, processed, log, today, op, err, arg, added, file, run,
          succeeded>>

\* ------------------------------------------------------------ log queries
RECURSIVE SumPages(_)
SumPages(l) == IF l = <<>> THEN 0 ELSE Head(l).pages + SumPages(Tail(l))

total(l) == SumPages(l)

avg_round(l) ==
    IF Len(l) = 0 THEN 0 ELSE (2 * SumPages(l) + Len(l)) \div (2 * Len(l))

\* Python's a // b: ZeroDivisionError when b = 0
floordiv(a, b) ==
    IF b = 0 THEN [val |-> 0, err |-> "ZeroDivisionError"]
    ELSE [val |-> a \div b, err |-> "none"]

\* the avg property: the value it returns and the exception that leaves it
avg_call_uncaught(l) == floordiv(SumPages(l), Len(l))

avg_call(l) ==
    LET r == floordiv(SumPages(l), Len(l))
    IN  IF r.err = "ZeroDivisionError" THEN [val |-> 0, err |-> "none"] ELSE r

avg(l) == avg_call(l).val

yesterday_same(t) == t

yesterday(t) == t - 1

InLog(l, d) == \E i \in 1..Len(l) : l[i].date = d

\* sorted(items, key=date): insertion into an ascending sequence
RECURSIVE Insert(_, _)
Insert(l, e) ==
    IF l = <<>> THEN <<e>>
    ELSE IF e.date < Head(l).date THEN <<e>> \o l
    ELSE <<Head(l)>> \o Insert(Tail(l), e)

RECURSIVE sorted(_)
sorted(l) == IF l = <<>> THEN <<>> ELSE Insert(sorted(Tail(l)), Head(l))

\* ---------------------------------------------------------------- _set_log
\* the outcome of _set_log(date, pages) on log l: the new log and the error
set_log_mut(l, date, pages) ==
    IF pages < 0 THEN [log |-> l, err |-> "InvalidArgument"]
    ELSE IF WrongFormat(date) THEN [log |-> l, err |-> "ParseError"]
    ELSE [log |-> sorted(Append(SelectSeq(l, LAMBDA e : e.date # ToDate(date)),
                                [date |-> ToDate(date), pages |-> pages])),
          err |-> "none"]

set_log(l, date, pages) ==
    IF pages < 0 THEN [log |-> l, err |-> "InvalidArgument"]
    ELSE IF WrongFormat(date) THEN [log |-> l, err |-> "ParseError"]
    ELSE IF InLog(l, ToDate(date)) THEN [log |-> l, err |-> "DuplicateDate"]
    ELSE [log |-> sorted(Append(l, [date |-> ToDate(date), pages |-> pages])),
          err |-> "none"]

\* -------------------------------------------------------------- lifecycle
\* _last_id: the id of the last book in the queue (IndexError when empty)
last_id_first(q) == q[1].id

_last_id(q) == q[Len(q)].id

\* the outcome of add_book(title, authors, pages) on queue q
add_book(q, title, authors, pages) ==
    IF Len(q) = 0 THEN [queue |-> q, err |-> "IndexError"]
    ELSE [queue |-> Append(q, Book(_last_id(q) + 1, title, authors, pages,
                                   None, None)),
          err |-> "none"]

\* the outcome of complete_book(completed_date) on queue q and processed p
\* when the clock shows day t; completed_date is None or a day
complete_book_prepend(q, p, completed_date, t) ==
    IF Len(q) = 0 THEN [queue |-> q, processed |-> p, err |-> "EmptyQueue"]
    ELSE LET date == IF completed_date # None THEN completed_date ELSE t
             book == set_end_date(Head(q), DateObj(date))
             rest == Tail(q)
         IN  IF Len(rest) = 0
             THEN [queue |-> rest, processed |-> <<book>> \o p,
                   err |-> "IndexError"]
             ELSE [queue |-> [rest EXCEPT ![1] = set_start_date(rest[1], DateObj(date + 1))],
                   processed |-> <<book>> \o p, err |-> "none"]

complete_book_noguard(q, p, completed_date, t) ==
    IF Len(q) = 0 THEN [queue |-> q, processed |-> p, err |-> "IndexError"]
    ELSE LET date == IF completed_date # None THEN completed_date ELSE t
             book == set_end_date(Head(q), DateObj(date))
             rest == Tail(q)
         IN  IF Len(rest) = 0
             THEN [queue |-> rest, processed |-> Append(p, book),
                   err |-> "IndexError"]
             ELSE [queue |-> [rest EXCEPT ![1] = set_start_date(rest[1], DateObj(date + 1))],
                   processed |-> Append(p, book), err |-> "none"]

complete_book_drop(q, p, completed_date, t) ==
    IF Len(q) = 0 THEN [queue |-> q, processed |-> p, err |-> "EmptyQueue"]
    ELSE LET date == IF completed_date # None THEN completed_date ELSE t
             rest == Tail(q)
         IN  IF Len(rest) = 0
             THEN [queue |-> rest, processed |-> p, err |-> "IndexError"]
             ELSE [queue |-> [rest EXCEPT ![1] = set_start_date(rest[1], DateObj(date + 1))],
                   processed |-> p, err |-> "none"]

complete_book(q, p, completed_date, t) ==
    IF Len(q) = 0 THEN [queue |-> q, processed |-> p, err |-> "EmptyQueue"]
    ELSE LET date == IF completed_date # None THEN completed_date ELSE t
             book == set_end_date(Head(q), DateObj(date))
             rest == Tail(q)
         IN  IF Len(rest) = 0
             THEN [queue |-> rest, processed |-> Append(p, book),
                   err |-> "IndexError"]
             ELSE [queue |-> [rest EXCEPT ![1] = set_start_date(rest[1], DateObj(date + 1))],
                   processed |-> Append(p, book), err |-> "none"]

\* ------------------------------------------------------------- projection
\* __contains__ and __getitem__: the book with this id, queue searched first
Contains(q, p, id) == \E i \in 1..Len(q \o p) : (q \o p)[i].id = id

getitem(q, p, id) ==
    IF ~Contains(q, p, id) THEN [err |-> "IndexError", book |-> Book(0, "", "", 0, None, None)]
    ELSE LET all == q \o p
             i == CHOOSE k \in 1..Len(all) :
                     all[k].id = id /\ \A j \in 1..(k - 1) : all[j].id # id
         IN  [err |-> "none", book |-> all[i]]

\* the start_date property: start_date of the book with id 1
start_date(q, p) ==
    LET r == getitem(q, p, 1)
    IN  [err |-> r.err, date |-> r.book.start_date]

\* the loop of _str_queue from last_date on, at the given pace (pace > 0)
RECURSIVE WalkOverlap(_, _, _)
WalkOverlap(q, last_date, pace) ==
    IF q = <<>> THEN <<>>
    ELSE LET days_count == floordiv(Head(q).pages, pace).val + 1
             finish_date == last_date + days_count
         IN  <<[id |-> Head(q).id, start |-> last_date,
                finish |-> finish_date, days |-> days_count]>>
             \o WalkOverlap(Tail(q), finish_date, pace)

RECURSIVE Walk(_, _, _)
Walk(q, last_date, pace) ==
    IF q = <<>> THEN <<>>
    ELSE LET days_count == floordiv(Head(q).pages, pace).val + 1
             finish_date == last_date + days_count
         IN  <<[id |-> Head(q).id, start |-> last_date,
                finish |-> finish_date, days |-> days_count]>>
             \o Walk(Tail(q), finish_date + 1, pace)

\* _str_queue on queue q, processed p and log l: the exception that leaves
\* it and the ranges it prints, one per queued book
str_queue(q, p, l) ==
    LET sd == start_date(q, p)
        pace == avg_call(l)
    IN  IF sd.err # "none" THEN [err |-> sd.err, ranges |-> <<>>]
        ELSE IF q = <<>> THEN [err |-> "none", ranges |-> <<>>]
        ELSE IF pace.err # "none" THEN [err |-> pace.err, ranges |-> <<>>]
        ELSE IF floordiv(Head(q).pages, pace.val).err # "none"
             THEN [err |-> "ZeroDivisionError", ranges |-> <<>>]
        ELSE IF sd.date = None THEN [err |-> "TypeError", ranges |-> <<>>]
        ELSE [err |-> "none", ranges |-> Walk(q, sd.date, pace.val)]

\* _str_log on log l: the average it prints and how it compares with
\* PAGES_PER_DAY
str_log(l) ==
    LET a == avg_call(l)
    IN  IF a.err # "none" THEN [err |-> a.err, avg |-> 0, diff |-> 0]
        ELSE [err |-> "none", avg |-> a.val,
              diff |-> IF a.val < PAGES_PER_DAY THEN PAGES_PER_DAY - a.val
                       ELSE a.val - PAGES_PER_DAY]

\* _str_processed on processed p: end_date - start_date raises TypeError
\* for a book with a date left None
str_processed(p) ==
    IF \E i \in 1..Len(p) : p[i].start_date = None \/ p[i].end_date = None
    THEN [err |-> "TypeError"]
    ELSE [err |-> "none"]

\* _str_total on log l
str_total(l) == [err |-> "none", total |-> total(l)]

\* --------------------------------------------------------------- log.json
\* log.json: a JSON object (its items in file order), an empty file or no
\* file at all
JsonFile(data) == [kind |-> "json", data |-> data]
EmptyFile == [kind |-> "empty", data |-> <<>>]
MissingFile == [kind |-> "missing", data |-> <<>>]

\* res[date] = count on a dict kept in insertion order
DictPut(l, date, count) ==
    IF InLog(l, date)
    THEN [i \in 1..Len(l) |->
             IF l[i].date = date THEN [date |-> date, pages |-> count] ELSE l[i]]
    ELSE Append(l, [date |-> date, pages |-> count])

RECURSIVE ParseItems(_, _)
ParseItems(data, res) ==
    IF data = <<>> THEN res
    ELSE ParseItems(Tail(data),
                    DictPut(res, strptime(Head(data).date), Head(data).count))

\* _get_log: open raises FileNotFoundError, ujson.load of an empty file and
\* strptime of a malformed key raise ValueError
get_log(f) ==
    IF f.kind = "missing" THEN [log |-> <<>>, err |-> "FileNotFoundError"]
    ELSE IF f.kind = "empty" THEN [log |-> <<>>, err |-> "JSONDecodeError"]
    ELSE IF \E i \in 1..Len(f.data) : ~Parses(f.data[i].date)
         THEN [log |-> <<>>, err |-> "ParseError"]
    ELSE [log |-> ParseItems(f.data, <<>>), err |-> "none"]

\* the exceptions that are ValueError or a subclass of it
ValueErrors == {"ParseError", "JSONDecodeError", "InvalidArgument",
                "DuplicateDate", "EmptyQueue"}

\* __init__: the log it starts with and the exception that leaves it
init_log(f) ==
    LET r == get_log(f)
    IN  IF r.err \in ValueErrors THEN [log |-> <<>>, err |-> "none"] ELSE r

\* dump_log: the file it writes
dump_log(l) ==
    JsonFile([i \in 1..Len(l) |->
                 [date |-> strftime(l[i].date), count |-> l[i].pages]])

\* ------------------------------------------------------------------ state
Ids(s) == {s[i].id : i \in 1..Len(s)}

NoArg == [date |-> DateObj(None), pages |-> 0]

\* an optional int argument of the command line: given or left out (None)
Absent == [given |-> FALSE, val |-> 0]
Given(n) == [given |-> TRUE, val |-> n]

\* is_ok: the argument is an int > 0
is_ok(num) == num.given /\ num.val > 0

\* no run of main is in progress
NoRun == [pc |-> "idle", today |-> Absent, yesterday |-> Absent,
          is_dump_log |-> FALSE]

\* a log setter called on day t that ended with e: kept when it returned
\* normally
Succeed(done, name, t, e) ==
    IF e = "none" THEN done \cup {[op |-> name, day |-> t]} ELSE done

\* _get_books on a books.json snapshot: ids ascending from 1, an empty
\* processed list, the head started on 01.01.2024 (a str, parsed by the
\* setter), the others not started
Snapshot(n, sizes) ==
    [i \in 1..n |->
        set_start_date(Book(i, "T", "A", sizes[i], None, None),
                       IF i = 1 THEN StrObj(strftime(1)) ELSE DateObj(None))]

Init ==
    /\ \E n \in 0..MaxInitQueue : \E sizes \in [1..n -> SizeChoices] :
            queue = Snapshot(n, sizes)
    /\ processed = <<>>
    /\ file = JsonFile(<<>>)
    /\ log = init_log(file).log
    /\ today = 2     \* the first day of the calendar that has a yesterday
    /\ op = "init"
    /\ err = init_log(file).err
    /\ arg = NoArg
    /\ added = Ids(queue)
    /\ run = NoRun
    /\ succeeded = {}

\* ---------------------------------------------------------------- actions
\* add_book with its arguments drawn from the given sets
AddBookFrom(titles, authors, sizes) ==
    /\ Len(queue) + Len(processed) < MaxBooks
    /\ \E title \in titles, author \in authors, pages \in sizes :
         LET r == add_book(queue, title, author, pages)
         IN  /\ queue' = r.queue
             /\ err' = r.err
             /\ arg' = [date |-> DateObj(None), pages |-> pages]
             /\ added' = added \cup Ids(r.queue)
    /\ op' = "add_book"
    /\ UNCHANGED <<processed, log, today, file, run, succeeded>>

AddBook == AddBookFrom(TitleChoices, AuthorChoices, SizeChoices)

\* add_book called with any title, authors and pages: blank or
\* whitespace-only text and a page count of 0 included
AnyTitles == {" ", "T"}
AnyAuthors == {"", "A"}
AnySizes == {0, 150}

AddAnyBook == AddBookFrom(AnyTitles, AnyAuthors, AnySizes)

CompleteBook ==
    /\ \E completed_date \in {None} \cup (1..MaxDay) :
         LET r == complete_book(queue, processed, completed_date, today)
         IN  /\ queue' = r.queue
             /\ processed' = r.processed
             /\ err' = r.err
             /\ arg' = [date |-> DateObj(completed_date), pages |-> 0]
    /\ op' = "complete_book"
    /\ UNCHANGED <<log, today, added, file, run, succeeded>>

DateArgs == {DateObj(d) : d \in Days} \cup {StrObj(s) : s \in StrChoices}

\* _set_log(date, pages) reached through the method called name
CallSetLog(name, date, pages) ==
    LET r == set_log(log, date, pages)
    IN  /\ Len(r.log) <= MaxLog
        /\ log' = r.log
        /\ err' = r.err
        /\ arg' = [date |-> date, pages |-> pages]
        /\ op' = name
        /\ UNCHANGED <<queue, processed, today, added, file, run>>

ApplySetLog(name, date, pages) ==
    /\ CallSetLog(name, date, pages)
    /\ UNCHANGED succeeded

\* the same call, with the record of its normal return kept in succeeded
RecordSetLog(name, date, pages) ==
    /\ CallSetLog(name, date, pages)
    /\ succeeded' = Succeed(succeeded, name, today, err')

SetLog == \E date \in DateArgs, pages \in PageChoices :
             ApplySetLog("_set_log", date, pages)

SetTodayLog == \E pages \in PageChoices :
                  ApplySetLog("set_today_log", DateObj(today), pages)

SetYesterdayLog == \E pages \in PageChoices :
                      ApplySetLog("set_yesterday_log", DateObj(yesterday(today)), pages)

\* the calendar day changes between two operations
Tick ==
    /\ today < MaxDay
    /\ today' = today + 1
    /\ op' = "tick"
    /\ err' = "none"
    /\ arg' = NoArg
    /\ UNCHANGED <<queue, processed, log, added, file, run, succeeded>>

\* print_queue and print_log change nothing; err is what they raise
PrintQueue ==
    /\ op' = "print_queue"
    /\ err' = str_queue(queue, processed, log).err
    /\ arg' = NoArg
    /\ UNCHANGED <<queue, processed, log, today, added, file, run,
                   succeeded>>

PrintLog ==
    /\ op' = "print_log"
    /\ err' = str_log(log).err
    /\ arg' = NoArg
    /\ UNCHANGED <<queue, processed, log, today, added, file, run,
                   succeeded>>

\* dump_log writes the log to log.json
DumpLog ==
    /\ file' = dump_log(log)
    /\ op' = "dump_log"
    /\ err' = "none"
    /\ arg' = NoArg
    /\ UNCHANGED <<queue, processed, log, today, added, run, succeeded>>

\* ------------------------------------------------------------------- main
\* the command line: -tday and -yday with an int or left out, and the print
\* switches
CliPages == {0 - 1, 0, 25}
CliArgs == {Absent} \cup {Given(n) : n \in CliPages}
PrintFlags == {"pall", "pl", "pt", "pq", "pp"}

RunOver == {"idle", "done", "crashed"}

\* the exception of the first call that raises, "none" when none does
RECURSIVE FirstErr(_)
FirstErr(errs) ==
    IF errs = <<>> THEN "none"
    ELSE IF Head(errs) # "none" THEN Head(errs)
    ELSE FirstErr(Tail(errs))

\* the print calls of main in the order it makes them: print(books_queue)
\* for -pall, else print_log, print_total, print_queue, print_processed
print_calls(flags, q, p, l) ==
    IF "pall" \in flags
    THEN <<str_log(l).err, str_queue(q, p, l).err, str_total(l).err>>
    ELSE <<IF "pl" \in flags THEN str_log(l).err ELSE "none",
           IF "pt" \in flags THEN str_total(l).err ELSE "none",
           IF "pq" \in flags THEN str_queue(q, p, l).err ELSE "none",
           IF "pp" \in flags THEN str_processed(p).err ELSE "none">>

\* main up to the check of its arguments: parse_args, BooksQueue() over the
\* stored log.json, ValueError when -tday and -yday are both given
MainStart ==
    /\ run.pc \in RunOver
    /\ \E t \in CliArgs, y \in CliArgs :
         LET r == init_log(file)
             e == IF r.err # "none" THEN r.err
                  ELSE IF t.given /\ y.given THEN "InvalidArgument"
                  ELSE "none"
         IN  /\ log' = r.log
             /\ err' = e
             /\ run' = [pc |-> IF e = "none" THEN "set" ELSE "crashed",
                        today |-> t, yesterday |-> y,
                        is_dump_log |-> FALSE]
    /\ op' = "main"
    /\ arg' = NoArg
    /\ UNCHANGED <<queue, processed, today, added, file, succeeded>>

\* main: set_today_log or set_yesterday_log when is_ok accepts the argument
MainSet ==
    /\ run.pc = "set"
    /\ IF is_ok(run.today) \/ is_ok(run.yesterday)
       THEN LET name == IF is_ok(run.today) THEN "set_today_log"
                        ELSE "set_yesterday_log"
                date == IF is_ok(run.today) THEN DateObj(today)
                        ELSE DateObj(yesterday(today))
                pages == IF is_ok(run.today) THEN run.today.val
                         ELSE run.yesterday.val
                r == set_log(log, date, pages)
            IN  /\ Len(r.log) <= MaxLog
                /\ log' = r.log
                /\ err' = r.err
                /\ arg' = [date |-> date, pages |-> pages]
                /\ op' = name
                /\ run' = [run EXCEPT
                              !.pc = IF r.err = "none" THEN "print"
                                     ELSE "crashed",
                              !.is_dump_log = (r.err = "none")]
       ELSE /\ err' = "none"
            /\ arg' = NoArg
            /\ op' = "main"
            /\ run' = [run EXCEPT !.pc = "print"]
            /\ UNCHANGED log
    /\ UNCHANGED <<queue, processed, today, added, file, succeeded>>

\* main: the print calls, for any print switches of the command line; an
\* exception of one of them ends the run
MainPrint ==
    /\ run.pc = "print"
    /\ \E flags \in SUBSET PrintFlags :
         LET e == FirstErr(print_calls(flags, queue, processed, log))
         IN  /\ err' = e
             /\ run' = [run EXCEPT !.pc = IF e = "none" THEN "dump"
                                          ELSE "crashed"]
    /\ op' = "print"
    /\ arg' = NoArg
    /\ UNCHANGED <<queue, processed, log, today, added, file, succeeded>>

\* main: dump_log when is_dump_log was set, then the run ends
MainDump ==
    /\ run.pc = "dump"
    /\ file' = IF run.is_dump_log THEN dump_log(log) ELSE file
    /\ op' = IF run.is_dump_log THEN "dump_log" ELSE "main"
    /\ err' = "none"
    /\ arg' = NoArg
    /\ run' = [run EXCEPT !.pc = "done"]
    /\ UNCHANGED <<queue, processed, log, today, added, succeeded>>

\* the public operations of BooksQueue; _set_log called directly, with any
\* date, is part of NextLog
Next ==
    \/ AddBook
    \/ CompleteBook
    \/ SetTodayLog
    \/ SetYesterdayLog
    \/ PrintQueue
    \/ PrintLog
    \/ DumpLog
    \/ Tick

Spec == Init /\ [][Next]_vars

NextQueue ==
    \/ AddBook
    \/ CompleteBook
    \/ Tick

\* the lifecycle operations alone
SpecQueue == Init /\ [][NextQueue]_vars

NextLog ==
    \/ SetLog
    \/ SetTodayLog
    \/ SetYesterdayLog
    \/ Tick

\* the log operations alone
SpecLog == Init /\ [][NextLog]_vars

\* logs a log.json snapshot holds, one per pace the projection meets:
\* no entry, pace 0, 37 (not an integer average), 50, 75 and 100
SchedLogs ==
    { <<>>,
      <<[date |-> 1, pages |-> 0]>>,
      <<[date |-> 1, pages |-> 25], [date |-> 2, pages |-> 50]>>,
      <<[date |-> 1, pages |-> 50]>>,
      <<[date |-> 1, pages |-> 100], [date |-> 2, pages |-> 50]>>,
      <<[date |-> 1, pages |-> 100]>> }

\* construction from a books.json snapshot and a log.json snapshot
InitSched ==
    /\ \E n \in 0..MaxInitQueue : \E sizes \in [1..n -> SizeChoices] :
            queue = Snapshot(n, sizes)
    /\ processed = <<>>
    /\ \E l \in SchedLogs : file = dump_log(l)
    /\ log = init_log(file).log
    /\ today = 2
    /\ op = "init"
    /\ err = init_log(file).err
    /\ arg = NoArg
    /\ added = Ids(queue)
    /\ run = NoRun
    /\ succeeded = {}

NextSched ==
    \/ AddBook
    \/ CompleteBook
    \/ PrintQueue
    \/ PrintLog
    \/ Tick

\* the lifecycle operations and the printed projection over a loaded log
SpecSched == InitSched /\ [][NextSched]_vars

NextAdd ==
    \/ AddAnyBook
    \/ CompleteBook
    \/ Tick

\* the lifecycle operations with add_book's arguments unrestricted
SpecAdd == Init /\ [][NextAdd]_vars

\* the keys and counts a stored log.json holds: two dates in DATE_FORMAT
\* and one key that is not a date
FileKeys == {"01.01.2024", "02.01.2024", "2024-01-02"}
FileCounts == {50, 100}
MaxFile == 2

FileItems == [date : FileKeys, count : FileCounts]

FileChoices ==
    {EmptyFile, MissingFile} \cup
    {JsonFile(d) : d \in
        {d \in UNION {[1..n -> FileItems] : n \in 0..MaxFile} :
            \A i, j \in 1..Len(d) : d[i].date = d[j].date => i = j}}

\* construction from a books.json snapshot and any stored log.json
InitLoad ==
    /\ \E n \in 0..MaxInitQueue : \E sizes \in [1..n -> SizeChoices] :
            queue = Snapshot(n, sizes)
    /\ processed = <<>>
    /\ file \in FileChoices
    /\ log = init_log(file).log
    /\ today = 2
    /\ op = "init"
    /\ err = init_log(file).err
    /\ arg = NoArg
    /\ added = Ids(queue)
    /\ run = NoRun
    /\ succeeded = {}

\* no operation runs on an object whose construction raised
Constructed == ~(op = "init" /\ err # "none")

NextLoad ==
    \/ Constructed /\ SetTodayLog
    \/ Constructed /\ SetYesterdayLog
    \/ Constructed /\ DumpLog
    \/ Constructed /\ Tick

\* loading log.json, recording pages and writing log.json back
SpecLoad == InitLoad /\ [][NextLoad]_vars

\* the day changes between two runs of main, not within one
NextCli ==
    \/ MainStart
    \/ MainSet
    \/ MainPrint
    \/ MainDump
    \/ run.pc \in RunOver /\ Tick

\* runs of the command line, one after the other, over the same files
SpecCli == Init /\ [][NextCli]_vars

\* set_today_log and set_yesterday_log with the record of the calls that
\* returned normally
DailyToday == \E pages \in PageChoices :
                 RecordSetLog("set_today_log", DateObj(today), pages)

DailyYesterday == \E pages \in PageChoices :
                     RecordSetLog("set_yesterday_log",
                                  DateObj(yesterday(today)), pages)

\* the two dated setters and the clock alone
NextDaily ==
    \/ DailyToday
    \/ DailyYesterday
    \/ Tick

SpecDaily == Init /\ [][NextDaily]_vars

TypeOK ==
    /\ today \in 2..MaxDay
    /\ Len(queue) + Len(processed) <= MaxBooks
    /\ Len(log) <= MaxLog

\* ------------------------------------------------------- claim vocabulary
LogOps == {"_set_log", "set_today_log", "set_yesterday_log"}

MutatingOps == LogOps \cup {"add_book", "complete_book"}

Max(S) == CHOOSE x \in S : \A y \in S : y <= x

AllBooks == processed \o queue

\* the date a complete_book call completes the head on
CompletedOn(a, t) == IF a.date.day # None THEN a.date.day ELSE t

\* ------------------------------------------------------------------ claims

\* C1: for every non-empty queue (a single item included) complete_book
\* succeeds, removes exactly the head, appends it to processed with
\* end_date = completed date and, when items remain, starts the new head on
\* the next day; every other item is unchanged.
C1_CompleteMovesHead ==
    [][(op' = "complete_book" /\ Len(queue) >= 1) =>
         LET date == CompletedOn(arg', today)
         IN  /\ err' = "none"
             /\ processed' = Append(processed,
                                    [Head(queue) EXCEPT !.end_date = date])
             /\ Len(queue') = Len(queue) - 1
             /\ \A i \in 1..Len(queue') :
                   queue'[i] = IF i = 1
                               THEN [queue[2] EXCEPT !.start_date = date + 1]
                               ELSE queue[i + 1]]_vars

\* C2: complete_book on an empty queue fails with EmptyQueue and leaves
\* queue, processed and the log as they were.
C2_EmptyQueueFails ==
    [][(op' = "complete_book" /\ Len(queue) = 0) =>
         /\ err' = "EmptyQueue"
         /\ UNCHANGED <<queue, processed, log>>]_vars

C2_Witness ==
    /\ op = "complete_book"
    /\ err = "EmptyQueue"
    /\ queue = <<>>

\* C3: a mutating operation that ends in an error leaves the queue, the
\* processed list, every material's dates and the log as they were.
C3_FailureAtomic ==
    [][(op' \in MutatingOps /\ err' # "none") =>
         UNCHANGED <<queue, processed, log>>]_vars

\* C4: every material id occurs exactly once in processed followed by
\* queue, and every id ever in the system is still in one of the two.
C4_IdsUnique ==
    /\ \A i, j \in 1..Len(AllBooks) :
          AllBooks[i].id = AllBooks[j].id => i = j
    /\ Ids(AllBooks) = added

C4_Witness ==
    /\ op = "complete_book"
    /\ Len(processed) = 2
    /\ Len(queue) = 1
    /\ Cardinality(added) = 3

\* C5: an add_book that succeeds appends a material whose id is greater
\* than every id in queue or processed, namely the largest of them plus 1.
C5_IdsIncreasing ==
    [][(op' = "add_book" /\ err' = "none") =>
         LET new == queue'[Len(queue')]
             old == Ids(queue) \cup Ids(processed)
         IN  /\ queue' = Append(queue, new)
             /\ \A i \in old : new.id > i
             /\ new.id = Max(old) + 1]_vars

C5_Witness ==
    /\ op = "add_book"
    /\ err = "none"
    /\ Len(processed) >= 1
    /\ Len(queue) >= 2

\* C6: add_book on an empty queue succeeds: id 1 on a system without
\* materials, largest processed id + 1 on a drained queue; the queue then
\* holds exactly the new material.
C6_AddToEmptyQueue ==
    [][(op' = "add_book" /\ Len(queue) = 0) =>
         /\ err' = "none"
         /\ Len(queue') = 1
         /\ queue'[1].id = IF processed = <<>> THEN 1
                           ELSE Max(Ids(processed)) + 1]_vars

\* C7: complete_book with an explicit date before the head's start_date
\* fails with InvalidDateRange; the head stays queued without end_date and
\* processed is unchanged.
C7_EndBeforeStartRejected ==
    [][(/\ op' = "complete_book"
        /\ Len(queue) >= 1
        /\ arg'.date.day # None
        /\ Head(queue).start_date # None
        /\ arg'.date.day < Head(queue).start_date) =>
         /\ err' = "InvalidDateRange"
         /\ UNCHANGED <<queue, processed>>]_vars

\* C8: every material with both dates set has end_date >= start_date.
C8_EndNotBeforeStart ==
    \A i \in 1..Len(AllBooks) :
        (AllBooks[i].start_date # None /\ AllBooks[i].end_date # None) =>
            AllBooks[i].end_date >= AllBooks[i].start_date

C10_EntryCountedOnce ==
    /\ [](log = <<[date |-> 1, pages |-> 100], [date |-> 2, pages |-> 50]>>
            => avg(log) = 75 /\ total(log) = 150)
    /\ [][(/\ op' \in LogOps
           /\ arg'.pages >= 0
           /\ ~WrongFormat(arg'.date)
           /\ ToDate(arg'.date) <= today
           /\ ~InLog(log, ToDate(arg'.date))) =>
            /\ err' = "none"
            /\ Len(log') = Len(log) + 1
            /\ total(log') = total(log) + arg'.pages
            /\ avg(log') = total(log') \div Len(log')
            /\ \E i \in 1..Len(log') :
                  log'[i] = [date |-> ToDate(arg'.date), pages |-> arg'.pages]]_vars

C10_Witness ==
    /\ op \in LogOps
    /\ err = "none"
    /\ Len(log) = 2
    /\ total(log) = 75
    /\ avg(log) = 37

\* C11: avg on an empty log returns 0 and raises nothing; print_log, which
\* reads it, returns normally.
C11_AvgOfEmptyLog ==
    /\ [](log = <<>> => avg_call(log) = [val |-> 0, err |-> "none"])
    /\ [][(op' = "print_log" /\ log = <<>>) =>
            err' = "none" /\ str_log(log).avg = 0]_vars

C11_Witness ==
    /\ op = "print_log"
    /\ err = "none"
    /\ log = <<>>

\* the projection printed in the current state
Projection == str_queue(queue, processed, log)

\* ceil(size / pace) for pace >= 1
CeilDiv(size, pace) ==
    IF size % pace = 0 THEN size \div pace ELSE size \div pace + 1

\* C13: for a non-empty queue and a positive pace the projection has one
\* range per queued book, in queue order; the first starts at the cursor
\* and each next one starts the day after the previous one finishes.
C13_RangesContiguous ==
    (op = "print_queue" /\ queue # <<>> /\ avg(log) > 0) =>
        LET r == Projection
        IN  /\ err = "none"
            /\ r.err = "none"
            /\ Len(r.ranges) = Len(queue)
            /\ r.ranges[1].start = start_date(queue, processed).date
            /\ \A i \in 1..Len(queue) :
                  /\ r.ranges[i].id = queue[i].id
                  /\ r.ranges[i].start <= r.ranges[i].finish
            /\ \A i \in 1..(Len(queue) - 1) :
                  r.ranges[i + 1].start = r.ranges[i].finish + 1

C13_Witness ==
    /\ op = "print_queue"
    /\ err = "none"
    /\ Len(queue) >= 2
    /\ Len(processed) >= 1
    /\ avg(log) = 37

\* C14: days_count of every projected book is ceil(pages / pace): no extra
\* day when pages is an exact multiple of the pace.
C14_DaysIsCeiling ==
    (op = "print_queue" /\ err = "none") =>
        \A i \in 1..Len(Projection.ranges) :
            Projection.ranges[i].days = CeilDiv(queue[i].pages, avg(log))

\* C15: every projected range spans exactly days_count days, both ends
\* included: finish = start + days_count - 1.
C15_RangeSpansDays ==
    (op = "print_queue" /\ err = "none") =>
        \A i \in 1..Len(Projection.ranges) :
            Projection.ranges[i].finish =
                Projection.ranges[i].start + Projection.ranges[i].days - 1

\* C16: when the queue is non-empty and its head has a start_date, the
\* first projected range begins on the head's start_date.
C16_CursorIsHeadStart ==
    (/\ op = "print_queue"
     /\ queue # <<>>
     /\ Head(queue).start_date # None
     /\ avg(log) > 0) =>
        /\ Projection.err = "none"
        /\ Projection.ranges[1].start = Head(queue).start_date

\* C17: the projection of an empty queue is empty and raises nothing,
\* whatever processed holds and whatever the pace is.
C17_EmptyQueueProjection ==
    (op = "print_queue" /\ queue = <<>>) =>
        /\ err = "none"
        /\ Projection.ranges = <<>>

\* C12: a log setter called for a date after today fails with FutureDate
\* and leaves the log as it was; no log key is ever after today.
C12_NoFutureDate ==
    /\ [](\A i \in 1..Len(log) : log[i].date <= today)
    /\ [][(/\ op' \in LogOps
           /\ arg'.pages >= 0
           /\ ~WrongFormat(arg'.date)
           /\ ToDate(arg'.date) > today) =>
            /\ err' = "FutureDate"
            /\ log' = log]_vars

\* str.strip() on the texts of the model
strip(text) == IF text = " " THEN "" ELSE text

\* the constraints of the Material form: text not blank, pages > 0
ValidMaterial(title, authors, pages) ==
    /\ strip(title) # ""
    /\ strip(authors) # ""
    /\ pages > 0

\* C18: add_book fails with InvalidArgument and leaves the queue as it was
\* when pages <= 0 or the title or the author is blank; every material in
\* queue or processed has pages >= 1 and a title and an author.
C18_AddBookValidates ==
    /\ [](\A i \in 1..Len(AllBooks) :
            ValidMaterial(AllBooks[i].title, AllBooks[i].author,
                          AllBooks[i].pages))
    /\ [][(op' = "add_book" /\ queue # <<>> /\ arg'.pages <= 0) =>
            /\ err' = "InvalidArgument"
            /\ queue' = queue]_vars

\* a material that is started and not completed
Active(book) == book.start_date # None /\ book.end_date = None

StoredEntries(f) ==
    {[date |-> strptime(f.data[i].date), pages |-> f.data[i].count] :
        i \in {k \in 1..Len(f.data) : Parses(f.data[k].date)}}

\* C20: loading a log.json with a malformed date fails with ParseError and
\* never yields an empty or truncated log, so no later dump_log writes a
\* file that lost entries the file held before.
C20_MalformedLoadFails ==
    /\ []((op = "init" /\ file.kind = "json"
           /\ \E i \in 1..Len(file.data) : ~Parses(file.data[i].date)) =>
             err = "ParseError")
    /\ []((op = "init" /\ err = "none" /\ file.kind = "json") =>
             StoredEntries(file) \subseteq {log[i] : i \in 1..Len(log)})
    /\ [][op' = "dump_log" =>
            StoredEntries(file) \subseteq StoredEntries(file')]_vars

\* C21: construction over an empty log.json and over no log.json at all
\* succeeds with an empty log: average 0, total 0, no exception.
C21_EmptyOrMissingLoads ==
    (op = "init" /\ file.kind \in {"empty", "missing"}) =>
        /\ err = "none"
        /\ log = <<>>
        /\ avg(log) = 0
        /\ total(log) = 0

\* C22: a run of main in which set_today_log or set_yesterday_log returned
\* normally ends, whatever it prints and whether or not a print raises,
\* with log.json holding the log with the new entry.
C22_MutationPersisted ==
    (run.pc \in {"done", "crashed"} /\ run.is_dump_log) =>
        file = dump_log(log)

\* C26: a run of main given -tday n or -yday n with n >= 0 (0 included)
\* for a date the stored log does not hold ends with the log and log.json
\* that set_today_log(n) or set_yesterday_log(n) and dump_log produce.
C26_CliRecordsAsSetters ==
    [][(run.pc = "dump" /\ run'.pc = "done") =>
         LET stored == init_log(file).log
             t == run.today
             y == run.yesterday
         IN  /\ (t.given /\ ~y.given /\ t.val >= 0
                 /\ ~InLog(stored, today)) =>
                   /\ log' = set_log(stored, DateObj(today), t.val).log
                   /\ file' = dump_log(log')
             /\ (y.given /\ ~t.given /\ y.val >= 0
                 /\ ~InLog(stored, yesterday(today))) =>
                   /\ log' = set_log(stored, DateObj(yesterday(today)),
                                     y.val).log
                   /\ file' = dump_log(log')]_vars

\* the log's iteration order is strictly ascending by date
Ascending(l) == \A i \in 1..(Len(l) - 1) : l[i].date < l[i + 1].date

\* C23: right after construction over a log.json stored in any key order,
\* and after every log setter that returned normally, iterating the log
\* yields its entries in strictly ascending date order.
C23_LogAscending ==
    ((op = "init" \/ op \in LogOps) /\ err = "none") => Ascending(log)

\* s is an initial part of t
IsPrefix(s, t) == Len(s) <= Len(t) /\ \A i \in 1..Len(s) : s[i] = t[i]

\* the ids of the books of s, in order
IdSeq(s) == [i \in 1..Len(s) |-> s[i].id]

\* C24: every operation leaves the previous processed list as an initial
\* part of the new one, a completion appends the book that was the head of
\* the queue, and processed followed by queue keeps listing the materials
\* in the order they were queued.
C24_ProcessedAppendOnly ==
    [][/\ IsPrefix(processed, processed')
       /\ IsPrefix(IdSeq(AllBooks), IdSeq(AllBooks'))
       /\ (processed' # processed =>
             /\ op' = "complete_book"
             /\ queue # <<>>
             /\ IdSeq(processed') = Append(IdSeq(processed), Head(queue).id)
             /\ queue' # <<>> => IdSeq(queue') = Tail(IdSeq(queue)))]_vars

C24_Witness ==
    /\ op = "complete_book"
    /\ IdSeq(processed) = <<1, 2>>
    /\ IdSeq(queue) = <<3>>
    /\ processed[1].end_date <= processed[2].end_date

\* C25: the projection of a non-empty queue at pace 0 (an empty log, or a
\* log whose integer average is 0) fails with InvalidArgument, yields no
\* range and leaves queue, processed and log as they were.
C25_ZeroPaceRejected ==
    /\ []((op = "print_queue" /\ queue # <<>> /\ avg(log) = 0) =>
            /\ err = "InvalidArgument"
            /\ Projection.ranges = <<>>)
    /\ [][(op' = "print_queue" /\ queue # <<>> /\ avg(log) = 0) =>
            UNCHANGED <<queue, processed, log>>]_vars

\* yesterday's date is in the log through one of the two dated setters:
\* set_today_log returned normally the day before, or set_yesterday_log
\* did today
YesterdayTaken ==
    \/ [op |-> "set_today_log", day |-> today - 1] \in succeeded
    \/ [op |-> "set_yesterday_log", day |-> today] \in succeeded

DailyOps == {"set_today_log", "set_yesterday_log"}

\* C27 as stated: with the log changed by set_today_log and
\* set_yesterday_log only and a clock that never goes back, no log key is
\* after today, each of the two succeeds at most once on a day, and
\* set_yesterday_log fails as a duplicate exactly when yesterday's date was
\* taken by one of them.
C27_DailySetters ==
    /\ [](\A i \in 1..Len(log) : log[i].date <= today)
    /\ [][(op' \in DailyOps /\ err' = "none") =>
            [op |-> op', day |-> today] \notin succeeded]_vars
    /\ [][op' = "set_yesterday_log" =>
            (err' = "DuplicateDate" <=> YesterdayTaken)]_vars

\* C27 amended: the same, for a set_yesterday_log called with pages >= 0;
\* called with pages < 0 it fails on the pages, whatever the log holds.
C27_DailySettersValidPages ==
    /\ [](\A i \in 1..Len(log) : log[i].date <= today)
    /\ [][(op' \in DailyOps /\ err' = "none") =>
            [op |-> op', day |-> today] \notin succeeded]_vars
    /\ [][op' = "set_yesterday_log" =>
            IF arg'.pages >= 0
            THEN err' = "DuplicateDate" <=> YesterdayTaken
            ELSE err' = "InvalidArgument"]_vars

C27_Witness ==
    /\ op = "set_yesterday_log"
    /\ err = "DuplicateDate"
    /\ arg.pages >= 0
    /\ [op |-> "set_today_log", day |-> today - 1] \in succeeded
    /\ [op |-> "set_yesterday_log", day |-> today] \notin succeeded

====
